---- MODULE Spec2Model ----
(***************************************************************************)
(* Snapshot and restore of an entity-component registry (src/src/main.cpp): *)
(* serialize_registry walks the live registry into a RegistryArchive and    *)
(* writes it to an archive; deserialize_registry reads a RegistryArchive    *)
(* back, resets the registry and repopulates it.                            *)
(*                                                                          *)
(* The registry itself (entt) and the archive's handling of vectors, pairs  *)
(* and tuples (cereal) are libraries; they are modelled from the store      *)
(* interface and the wire layout the specification describes.  In           *)
(* particular create(hint) makes exactly the requested identifier valid.    *)
(***************************************************************************)
EXTENDS Integers, Sequences, FiniteSets, TLC

(***************************************************************************)
(* Bounds of the model.                                                     *)
(***************************************************************************)
\* Entity identifiers are the integers 0 .. MaxId-1.
MaxId == 3

\* SpecMutation: at most MaxMutations mutations of the live registry in a run.
MaxMutations == 3

\* Width of the index field of an identifier; the version bits lie above it.
IndexBits == 1

Ids == 0 .. (MaxId - 1)

IndexRange == 2 ^ IndexBits

to_entity(id) == id % IndexRange

to_version(id) == id \div IndexRange

(***************************************************************************)
(* The declared types and the values the caller stores.                     *)
(***************************************************************************)
Types == {"position", "velocity"}

\* type_list<position, velocity> given for the components and for the
\* context variables at capture.
DeclaredComponents == <<"position", "velocity">>

DeclaredContextVars == <<"position", "velocity">>

\* The type lists a caller can hand to deserialize_registry: the declared
\* order, or the two types (of identical layout) in the other order.
TypeLists == {<<"position", "velocity">>, <<"velocity", "position">>}

\* position{1, 2, 3} and the same after p.x += 99.
ComponentValues == {<<1, 2, 3>>, <<100, 2, 3>>}

\* velocity{0, 0} (z value-initialised) and the same after x = 99.
ContextValues == {<<0, 0, 0>>, <<99, 0, 0>>}

\* An empty std::optional, a null ctx().find result, an empty pool slot.
None == <<>>

Some(v) == <<v>>

has_value(opt) == opt # None

value(opt) == opt[1]

(***************************************************************************)
(* The registry: the valid entities, one pool per component type (a         *)
(* function from the entities holding the type to its value), and the       *)
(* context variables (None when absent).                                    *)
(***************************************************************************)
EmptyRegistry ==
    [entities |-> {},
     pools    |-> [t \in Types |-> <<>>],
     ctx      |-> [t \in Types |-> None]]

valid(reg, e) == e \in reg.entities

any_of(reg, t, e) == e \in DOMAIN reg.pools[t]

get(reg, t, e) == reg.pools[t][e]

\* The indices in use by a valid entity.
UsedIndices(reg) == {to_entity(e) : e \in reg.entities}

\* registry.create(): the identifiers a fresh entity can get.
FreshIds(reg) == {e \in Ids : to_entity(e) \notin UsedIndices(reg)}

\* registry.create(hint): the entity exists with exactly that identifier.
create(reg, hint) == [reg EXCEPT !.entities = @ \cup {hint}]

emplace_or_replace(reg, t, e, v) ==
    [reg EXCEPT !.pools[t] =
        [x \in (DOMAIN @) \cup {e} |-> IF x = e THEN v ELSE @[x]]]

remove(reg, t, e) ==
    [reg EXCEPT !.pools[t] = [x \in (DOMAIN @) \ {e} |-> @[x]]]

destroy(reg, e) ==
    [entities |-> reg.entities \ {e},
     pools    |-> [t \in Types |->
                     [x \in (DOMAIN reg.pools[t]) \ {e} |-> reg.pools[t][x]]],
     ctx      |-> reg.ctx]

ctx_find(reg, t) == reg.ctx[t]

ctx_emplace(reg, t, v) == [reg EXCEPT !.ctx[t] = v]

ctx_erase(reg, t) == [reg EXCEPT !.ctx[t] = None]

\* The declared component types an entity holds.
Held(reg, e) == {t \in Types : any_of(reg, t, e)}

\* registry.each: the valid entities, each once, in some order.
RECURSIVE Orders(_)
Orders(S) ==
    IF S = {} THEN {<<>>}
    ELSE UNION {{<<e>> \o o : o \in Orders(S \ {e})} : e \in S}

(***************************************************************************)
(* The archive codecs.  A byte stream is a sequence of encoded items        *)
(* (naturals); a reader returns [ok, val, rest], ok FALSE when the stream   *)
(* ends before the item is complete (the archive throws).                   *)
(***************************************************************************)
\* Width of entt::id_type on the wire: every identifier of the model fits.
IdTypeRange == IndexRange * (MaxId + 1)

Failed == [ok |-> FALSE, val |-> None, rest |-> <<>>]

Read(v, rest) == [ok |-> TRUE, val |-> v, rest |-> rest]

\* save writing only the index field of the identifier.
save_entity_index(ent) == <<to_entity(ent)>>

\* save(Archive&, entt::entity const&): the identifier as its id_type.
save_entity(ent) == <<ent % IdTypeRange>>

\* load(Archive&, entt::entity&): the id_type cast back to an entity.
load_entity(s) ==
    IF Len(s) < 1 THEN Failed ELSE Read(s[1] % IdTypeRange, Tail(s))

\* serialize writing archive(v.x, v.z, v.y).
save_vec3_swapped(v) == <<v[1], v[3], v[2]>>

\* serialize(Archive&, position&) and serialize(Archive&, velocity&),
\* writing: archive(v.x, v.y, v.z).
save_vec3(v) == <<v[1], v[2], v[3]>>

\* The same two functions, reading.
load_vec3(s) ==
    IF Len(s) < 3 THEN Failed
    ELSE Read(<<s[1], s[2], s[3]>>, SubSeq(s, 4, Len(s)))

\* cereal::save(Archive&, const std::optional<T>&).  depth is the nesting of
\* the optional: T is a position or velocity at depth 1, and an optional of
\* depth - 1 above that.
RECURSIVE save_optional(_, _)
save_optional(optional, depth) ==
    LET has_value_ == has_value(optional)
    IN  IF has_value_
        THEN <<1>> \o (IF depth = 1 THEN save_vec3(value(optional))
                       ELSE save_optional(value(optional), depth - 1))
        ELSE <<0>>

RECURSIVE load_optional(_, _, _)

\* cereal::load without the else branch: an absent flag leaves the optional
\* as it was.
load_optional_noreset(s, optional, depth) ==
    IF Len(s) < 1 THEN Failed
    ELSE IF s[1] # 0
         THEN LET r == IF depth = 1 THEN load_vec3(Tail(s))
                       ELSE load_optional(Tail(s), None, depth - 1)
              IN  IF r.ok THEN Read(Some(r.val), r.rest) ELSE Failed
         ELSE Read(optional, Tail(s))

\* cereal::load(Archive&, std::optional<T>&): optional is the object loaded
\* into, val the optional afterwards.  The T is read into a
\* default-constructed T (T value;), an empty optional when T is one.
load_optional(s, optional, depth) ==
    IF Len(s) < 1 THEN Failed
    ELSE IF s[1] # 0
         THEN LET r == IF depth = 1 THEN load_vec3(Tail(s))
                       ELSE load_optional(Tail(s), None, depth - 1)
              IN  IF r.ok THEN Read(Some(r.val), r.rest) ELSE Failed
         ELSE Read(None, Tail(s))

\* std::pair<entt::entity, T>: first, then second.
save_pair(p) == save_entity(p[1]) \o save_vec3(p[2])

load_pair(s) ==
    LET e == load_entity(s)
    IN  IF ~e.ok THEN Failed
        ELSE LET c == load_vec3(e.rest)
             IN  IF ~c.ok THEN Failed ELSE Read(<<e.val, c.val>>, c.rest)

RECURSIVE save_elements(_)
save_elements(vec) ==
    IF vec = <<>> THEN <<>> ELSE save_pair(Head(vec)) \o save_elements(Tail(vec))

\* std::vector: a count, then that many elements.
save_vector(vec) == <<Len(vec)>> \o save_elements(vec)

RECURSIVE load_elements(_, _)
load_elements(s, n) ==
    IF n = 0 THEN Read(<<>>, s)
    ELSE LET h == load_pair(s)
         IN  IF ~h.ok THEN Failed
             ELSE LET t == load_elements(h.rest, n - 1)
                  IN  IF ~t.ok THEN Failed
                      ELSE Read(<<h.val>> \o t.val, t.rest)

load_vector(s) ==
    IF Len(s) < 1 THEN Failed ELSE load_elements(Tail(s), s[1])

\* std::tuple of vectors: the vectors in order.
RECURSIVE save_components(_)
save_components(tup) ==
    IF tup = <<>> THEN <<>>
    ELSE save_vector(Head(tup)) \o save_components(Tail(tup))

RECURSIVE load_components(_, _)
load_components(s, n) ==
    IF n = 0 THEN Read(<<>>, s)
    ELSE LET h == load_vector(s)
         IN  IF ~h.ok THEN Failed
             ELSE LET t == load_components(h.rest, n - 1)
                  IN  IF ~t.ok THEN Failed
                      ELSE Read(<<h.val>> \o t.val, t.rest)

\* std::tuple of optionals: the optionals in order.
RECURSIVE save_context_vars(_)
save_context_vars(tup) ==
    IF tup = <<>> THEN <<>>
    ELSE save_optional(Head(tup), 1) \o save_context_vars(Tail(tup))

\* Each optional of the tuple is loaded into a default-constructed (empty)
\* optional of the fresh RegistryArchive.
RECURSIVE load_context_vars(_, _)
load_context_vars(s, n) ==
    IF n = 0 THEN Read(<<>>, s)
    ELSE LET h == load_optional(s, None, 1)
         IN  IF ~h.ok THEN Failed
             ELSE LET t == load_context_vars(h.rest, n - 1)
                  IN  IF ~t.ok THEN Failed
                      ELSE Read(<<h.val>> \o t.val, t.rest)

\* archive(snapshot.components, snapshot.context_vars), writing.
save_snapshot(snapshot) ==
    save_components(snapshot.components)
        \o save_context_vars(snapshot.context_vars)

\* archive(snapshot.components, snapshot.context_vars), reading into a
\* RegistryArchive of nc component types and nx context types.
load_snapshot(s, nc, nx) ==
    LET c == load_components(s, nc)
    IN  IF ~c.ok THEN Failed
        ELSE LET x == load_context_vars(c.rest, nx)
             IN  IF ~x.ok THEN Failed
                 ELSE Read([components |-> c.val, context_vars |-> x.val],
                           x.rest)

(***************************************************************************)
(* serialize_registry.                                                      *)
(***************************************************************************)
\* The body of the registry.each callback for one entity: the fold over the
\* component types, appending (ent, registry.get<T>(ent)) to T's vector
\* when the entity holds a T.  Neither position nor velocity is an empty
\* type, so the std::is_empty_v branch is not taken.
visit_entity(reg, comps, vectors, ent) ==
    [i \in 1 .. Len(comps) |->
        IF any_of(reg, comps[i], ent)
        THEN Append(vectors[i], <<ent, get(reg, comps[i], ent)>>)
        ELSE vectors[i]]

\* registry.each stopping one entity short.
RECURSIVE each_entity_skip(_, _, _, _)
each_entity_skip(reg, comps, vectors, order) ==
    IF Len(order) <= 1 THEN vectors
    ELSE each_entity_skip(reg, comps,
                          visit_entity(reg, comps, vectors, Head(order)),
                          Tail(order))

RECURSIVE each_entity(_, _, _, _)
each_entity(reg, comps, vectors, order) ==
    IF order = <<>> THEN vectors
    ELSE each_entity(reg, comps,
                     visit_entity(reg, comps, vectors, Head(order)),
                     Tail(order))

\* The fold over the context types: the optional is emplaced when
\* registry.ctx().find<T>() is not null.
find_context_vars(reg, ctxs) ==
    [i \in 1 .. Len(ctxs) |->
        IF ctx_find(reg, ctxs[i]) # None
        THEN Some(ctx_find(reg, ctxs[i]))
        ELSE None]

\* The RegistryArchive serialize_registry builds; order is the order in
\* which registry.each visits the entities.
build_snapshot(reg, comps, ctxs, order) ==
    [components   |-> each_entity(reg, comps,
                                  [i \in 1 .. Len(comps) |-> <<>>], order),
     context_vars |-> find_context_vars(reg, ctxs)]

\* serialize_registry moving the context variables out of the registry.
serialize_registry_moving(reg, comps, ctxs, order) ==
    LET snap == build_snapshot(reg, comps, ctxs, order)
    IN  [registry |-> [reg EXCEPT !.ctx = [t \in Types |-> None]],
         snapshot |-> snap, bytes |-> save_snapshot(snap)]

\* serialize_registry: the registry afterwards (it is taken by const
\* reference), the snapshot built and the bytes written.
serialize_registry(reg, comps, ctxs, order) ==
    LET snap == build_snapshot(reg, comps, ctxs, order)
    IN  [registry |-> reg, snapshot |-> snap, bytes |-> save_snapshot(snap)]

(***************************************************************************)
(* deserialize_registry.                                                    *)
(***************************************************************************)
\* The loop body attaching the component only to an entity it has just
\* created.
restore_pair_new_only(reg, t, p) ==
    IF ~valid(reg, p[1])
    THEN emplace_or_replace(create(reg, p[1]), t, p[1], p[2])
    ELSE reg

\* One iteration of the loop over a type's vector.
restore_pair(reg, t, p) ==
    LET r == IF ~valid(reg, p[1]) THEN create(reg, p[1]) ELSE reg
    IN  emplace_or_replace(r, t, p[1], p[2])

RECURSIVE restore_vector(_, _, _)
restore_vector(reg, t, vec) ==
    IF vec = <<>> THEN reg
    ELSE restore_vector(restore_pair(reg, t, Head(vec)), t, Tail(vec))

\* The fold over the component types, from the i-th on.
RECURSIVE restore_components(_, _, _, _)
restore_components(reg, comps, vectors, i) ==
    IF i > Len(comps) THEN reg
    ELSE restore_components(restore_vector(reg, comps[i], vectors[i]),
                            comps, vectors, i + 1)

\* set_context_var installing nothing.
set_context_var_ignored(reg, t, ctx_var_opt) == reg

set_context_var(reg, t, ctx_var_opt) ==
    IF has_value(ctx_var_opt) THEN ctx_emplace(reg, t, value(ctx_var_opt))
    ELSE reg

RECURSIVE restore_context_vars(_, _, _, _)
restore_context_vars(reg, ctxs, opts, i) ==
    IF i > Len(ctxs) THEN reg
    ELSE restore_context_vars(set_context_var(reg, ctxs[i], opts[i]),
                              ctxs, opts, i + 1)

\* deserialize_registry without the reset.
reset_registry_kept(reg) == reg

\* registry = entt::registry();
reset_registry(reg) == EmptyRegistry

\* The registry after the snapshot has been read: reset, then repopulated.
rebuild(reg, comps, ctxs, snapshot) ==
    restore_context_vars(
        restore_components(reset_registry(reg), comps,
                           snapshot.components, 1),
        ctxs, snapshot.context_vars, 1)

\* deserialize_registry resetting first and applying each vector as soon as
\* it is read: a read that throws later leaves the first vector applied.
deserialize_registry_streaming(reg, comps, ctxs, src) ==
    LET r     == load_snapshot(src, Len(comps), Len(ctxs))
        first == load_vector(src)
    IN  IF r.ok
        THEN [threw |-> FALSE, registry |-> rebuild(reg, comps, ctxs, r.val)]
        ELSE IF first.ok
             THEN [threw |-> TRUE,
                   registry |-> restore_vector(reset_registry(reg), comps[1],
                                               first.val)]
             ELSE [threw |-> TRUE, registry |-> reset_registry(reg)]

\* deserialize_registry on the byte source src: threw is TRUE when the
\* archive's read throws, which happens before the registry is touched.
deserialize_registry(reg, comps, ctxs, src) ==
    LET r == load_snapshot(src, Len(comps), Len(ctxs))
    IN  IF ~r.ok THEN [threw |-> TRUE, registry |-> reg]
        ELSE [threw |-> FALSE,
              registry |-> rebuild(reg, comps, ctxs, r.val)]

(***************************************************************************)
(* The state: the caller's live registry, the bytes of the file the         *)
(* caller's archives write and read, and a record of the last capture and   *)
(* restore.                                                                 *)
(***************************************************************************)
VARIABLES
    registry,      \* the live entt::registry of the caller
    file,          \* the bytes serialize_registry wrote (<<>>: no capture yet)
    snapshot,      \* the RegistryArchive the last serialize_registry built
    captured,      \* the registry as it was when serialize_registry was called
    outcome,       \* "live", "saved", "restored" or "failed": the last operation
    restoredWith,  \* the type lists of the deserialize_registry that just returned
    mutations,     \* SpecMutation: the mutations of the registry so far
    dirty,         \* the registry was mutated after the last capture
    previous,      \* at a capture that follows a restore with the declared
                   \* lists: the snapshot that was restored
    codec          \* an optional taken through cereal::save and cereal::load

vars == <<registry, file, snapshot, captured, outcome, restoredWith,
          mutations, dirty, previous, codec>>

EmptyArchive(comps, ctxs) ==
    [components   |-> [i \in 1 .. Len(comps) |-> <<>>],
     context_vars |-> [i \in 1 .. Len(ctxs) |-> None]]

DeclaredLists == <<DeclaredComponents, DeclaredContextVars>>

NoPrevious ==
    [some |-> FALSE,
     snap |-> EmptyArchive(DeclaredComponents, DeclaredContextVars)]

CodecIdle == [pc |-> "idle", depth |-> 0, saved |-> None, wire |-> <<>>,
              target |-> None, loaded |-> None]

\* entt::registry registry; nothing captured yet.
Init ==
    /\ registry = EmptyRegistry
    /\ file = <<>>
    /\ snapshot = EmptyArchive(DeclaredComponents, DeclaredContextVars)
    /\ captured = EmptyRegistry
    /\ outcome = "live"
    /\ restoredWith = DeclaredLists
    /\ mutations = 0
    /\ dirty = FALSE
    /\ previous = NoPrevious
    /\ codec = CodecIdle

(***************************************************************************)
(* The caller's mutations of the live registry.  With budgeted FALSE the    *)
(* caller builds any registry before the first capture; with budgeted TRUE  *)
(* it mutates at any time, at most MaxMutations times.                      *)
(***************************************************************************)
Mutated(reg, budgeted) ==
    /\ IF budgeted THEN mutations < MaxMutations ELSE file = <<>>
    /\ registry' = reg
    /\ outcome' = "live"
    /\ restoredWith' = DeclaredLists
    /\ mutations' = IF budgeted THEN mutations + 1 ELSE mutations
    /\ dirty' = (file # <<>>)
    /\ previous' = NoPrevious
    /\ UNCHANGED <<file, snapshot, captured, codec>>

\* auto e1 = registry.create();
Create(budgeted) ==
    \E e \in FreshIds(registry) : Mutated(create(registry, e), budgeted)

Destroy(budgeted) ==
    \E e \in registry.entities : Mutated(destroy(registry, e), budgeted)

\* registry.emplace<position>(e1, position{1, 2, 3}); p.x += 99;
Emplace(budgeted) ==
    \E e \in registry.entities, t \in Types, v \in ComponentValues :
        /\ IF any_of(registry, t, e) THEN get(registry, t, e) # v ELSE TRUE
        /\ Mutated(emplace_or_replace(registry, t, e, v), budgeted)

Remove(budgeted) ==
    \E e \in registry.entities, t \in Types :
        /\ any_of(registry, t, e)
        /\ Mutated(remove(registry, t, e), budgeted)

\* registry.ctx().emplace<velocity>(velocity{0, 0});
\* registry.ctx().get<velocity>().x = 99;
CtxEmplace(budgeted) ==
    \E t \in Types, v \in ContextValues :
        /\ ctx_find(registry, t) # v
        /\ Mutated(ctx_emplace(registry, t, v), budgeted)

CtxErase(budgeted) ==
    \E t \in Types :
        /\ ctx_find(registry, t) # None
        /\ Mutated(ctx_erase(registry, t), budgeted)

(***************************************************************************)
(* Capture and restore.                                                     *)
(***************************************************************************)
\* serialize_registry(registry, type_list<position, velocity>{},
\*                    type_list<position, velocity>{}, archive);
Save ==
    \E order \in Orders(registry.entities) :
        LET r == serialize_registry(registry, DeclaredComponents,
                                    DeclaredContextVars, order)
        IN  /\ registry' = r.registry
            /\ file' = r.bytes
            /\ snapshot' = r.snapshot
            /\ captured' = registry
            /\ outcome' = "saved"
            /\ restoredWith' = DeclaredLists
            /\ dirty' = FALSE
            /\ previous' = IF outcome = "restored" /\ restoredWith = DeclaredLists
                           THEN [some |-> TRUE, snap |-> snapshot]
                           ELSE NoPrevious
            /\ UNCHANGED <<mutations, codec>>

\* The byte sources an input archive can be opened on: the file, the file
\* cut short anywhere, and the file with its first count overrunning it.
Sources(bytes) ==
    {SubSeq(bytes, 1, n) : n \in 0 .. Len(bytes)}
        \cup {[bytes EXCEPT ![1] = Len(bytes) + 1]}

\* What deserialize_registry can do to the registry reg, over the byte
\* sources and the type lists the caller can give it.
LoadResults(reg, bytes) ==
    {LET r == deserialize_registry(reg, comps, ctxs, src)
     IN  [threw    |-> r.threw,
          registry |-> r.registry,
          lists    |-> IF r.threw THEN DeclaredLists ELSE <<comps, ctxs>>] :
        comps \in TypeLists, ctxs \in TypeLists, src \in Sources(bytes)}

\* deserialize_registry(registry, type_list<...>{}, type_list<...>{}, archive);
Load ==
    /\ file # <<>>
    /\ \E r \in LoadResults(registry, file) :
        /\ registry' = r.registry
        /\ outcome' = IF r.threw THEN "failed" ELSE "restored"
        /\ restoredWith' = r.lists
        /\ previous' = NoPrevious
        /\ UNCHANGED <<file, snapshot, captured, mutations, dirty, codec>>

\* The caller builds a registry, captures it and restores from the capture.
Next ==
    \/ Create(FALSE)
    \/ Destroy(FALSE)
    \/ Emplace(FALSE)
    \/ Remove(FALSE)
    \/ CtxEmplace(FALSE)
    \/ CtxErase(FALSE)
    \/ Save
    \/ Load

Spec == Init /\ [][Next]_vars

\* The caller also mutates the registry between capture and restore.
NextMutation ==
    \/ Create(TRUE)
    \/ Destroy(TRUE)
    \/ Emplace(TRUE)
    \/ Remove(TRUE)
    \/ CtxEmplace(TRUE)
    \/ CtxErase(TRUE)
    \/ Save
    \/ Load

SpecMutation == Init /\ [][NextMutation]_vars

(***************************************************************************)
(* The optional codec on its own: an optional<T> (depth 1) or an            *)
(* optional<optional<T>> (depth 2), T a position or velocity, is saved and  *)
(* the items written are loaded into an optional object that may already    *)
(* hold a value.                                                            *)
(***************************************************************************)
Vec3Values == ComponentValues \cup ContextValues

Optionals(depth) ==
    IF depth = 1 THEN {None} \cup {Some(v) : v \in Vec3Values}
    ELSE {None} \cup {Some(None)} \cup {Some(Some(v)) : v \in Vec3Values}

InitOptional ==
    /\ registry = EmptyRegistry
    /\ file = <<>>
    /\ snapshot = EmptyArchive(DeclaredComponents, DeclaredContextVars)
    /\ captured = EmptyRegistry
    /\ outcome = "live"
    /\ restoredWith = DeclaredLists
    /\ mutations = 0
    /\ dirty = FALSE
    /\ previous = NoPrevious
    /\ codec \in {[pc |-> "init", depth |-> d, saved |-> o, wire |-> <<>>,
                   target |-> t, loaded |-> t] :
                     <<d, o, t>> \in UNION {{d} \X Optionals(d) \X Optionals(d) :
                                              d \in {1, 2}}}

SaveOptional ==
    /\ codec.pc = "init"
    /\ codec' = [codec EXCEPT !.pc = "saved",
                              !.wire = save_optional(codec.saved, codec.depth)]
    /\ UNCHANGED <<registry, file, snapshot, captured, outcome, restoredWith,
                   mutations, dirty, previous>>

LoadOptional ==
    /\ codec.pc = "saved"
    /\ LET r == load_optional(codec.wire, codec.target, codec.depth)
       IN  /\ r.ok
           /\ codec' = [codec EXCEPT !.pc = "loaded", !.loaded = r.val]
    /\ UNCHANGED <<registry, file, snapshot, captured, outcome, restoredWith,
                   mutations, dirty, previous>>

NextOptional ==
    \/ SaveOptional
    \/ LoadOptional

SpecOptional == InitOptional /\ [][NextOptional]_vars

(***************************************************************************)
(* The claims.                                                              *)
(***************************************************************************)
\* Two registries hold the same entities, each with the same declared
\* components and values, and the same context variables.
StoreEq(a, b) ==
    /\ a.entities = b.entities
    /\ \A t \in Types :
        /\ DOMAIN a.pools[t] = DOMAIN b.pools[t]
        /\ \A e \in DOMAIN a.pools[t] : get(a, t, e) = get(b, t, e)
        /\ ctx_find(a, t) = ctx_find(b, t)

\* The valid entities holding none of the declared component types.
Bare(reg) == {e \in reg.entities : Held(reg, e) = {}}

WithoutBare(reg) == [reg EXCEPT !.entities = @ \ Bare(reg)]

\* deserialize_registry has just returned, called with the type lists of
\* the capture.
RestoredDeclared == outcome = "restored" /\ restoredWith = DeclaredLists

\* The identifiers of a component vector, and its pairs as a set.
SeqIds(vec) == {vec[k][1] : k \in 1 .. Len(vec)}

AsSet(vec) == {vec[k] : k \in 1 .. Len(vec)}

\* C1 as stated: after serialize_registry and deserialize_registry with the
\* same type lists, the registry equals the registry that was captured
\* (same entities, same declared components and values per entity, same
\* context variables).
C1_RoundTripIdentity == RestoredDeclared => StoreEq(registry, captured)

\* C1 amended: after the round trip the registry equals the captured one
\* except that the entities that held none of the declared component types
\* are absent.
C1_RoundTripExceptBare ==
    RestoredDeclared => StoreEq(registry, WithoutBare(captured))

C1_Witness ==
    /\ RestoredDeclared
    /\ Bare(captured) # {}
    /\ \E e \in captured.entities : Held(captured, e) = Types
    /\ ctx_find(captured, "velocity") # None
    /\ ctx_find(captured, "position") = None

\* C2 as stated: every entity valid before the capture is valid, with the
\* identical identifier, after the restore, also an entity that holds none
\* of the declared component types.
C2_IdentifierPreservation ==
    outcome = "restored" => captured.entities \subseteq registry.entities

\* C2 amended: every entity that was valid before the capture and held at
\* least one declared component type is valid after the restore, with the
\* same index and the same version bits.
C2_HolderIdentifiersPreserved ==
    outcome = "restored" =>
        \A e \in captured.entities :
            Held(captured, e) # {} =>
                \E r \in registry.entities :
                    /\ to_entity(r) = to_entity(e)
                    /\ to_version(r) = to_version(e)

C2_Witness ==
    /\ outcome = "restored"
    /\ \E e \in captured.entities :
        /\ to_version(e) > 0
        /\ Held(captured, e) # {}
        /\ valid(registry, e)

\* C3: after a capture, any mutations of the live registry and a restore
\* from the captured bytes (same type lists), every captured component and
\* context value is back, no entity, component or context variable that
\* was not captured is in the registry, and a context variable absent at
\* the capture is absent.
C3_RestoreIsExact ==
    RestoredDeclared =>
        /\ \A t \in Types : \A e \in DOMAIN captured.pools[t] :
            /\ valid(registry, e)
            /\ any_of(registry, t, e)
            /\ get(registry, t, e) = get(captured, t, e)
        /\ registry.entities \subseteq captured.entities
        /\ \A t \in Types :
            /\ DOMAIN registry.pools[t] \subseteq DOMAIN captured.pools[t]
            /\ ctx_find(registry, t) = ctx_find(captured, t)

C3_Witness ==
    /\ RestoredDeclared
    /\ dirty
    /\ \E t \in Types : DOMAIN captured.pools[t] # {}

\* C4: after deserialize_registry (whatever the order of the pairs in the
\* vectors, and whatever type lists it was given), the valid entities are
\* the identifiers of the vectors, each once, and an entity holds exactly
\* the types whose vectors contain it, with the recorded values.
C4_RestoreGuarantee ==
    outcome = "restored" =>
        /\ registry.entities =
              UNION {SeqIds(snapshot.components[i]) :
                        i \in 1 .. Len(snapshot.components)}
        /\ \A i \in 1 .. Len(restoredWith[1]) :
            LET t   == restoredWith[1][i]
                vec == snapshot.components[i]
            IN  /\ DOMAIN registry.pools[t] = SeqIds(vec)
                /\ \A k \in 1 .. Len(vec) :
                    get(registry, t, vec[k][1]) = vec[k][2]

C4_Witness ==
    /\ outcome = "restored"
    /\ Len(snapshot.components[1]) = 2
    /\ snapshot.components[1][1][1] > snapshot.components[1][2][1]
    /\ SeqIds(snapshot.components[1]) \cap SeqIds(snapshot.components[2]) # {}
    /\ SeqIds(snapshot.components[1]) # SeqIds(snapshot.components[2])

\* C5: a deserialize_registry that fails leaves the registry as it was
\* before the call, or reset and empty.
C5_FailedRestoreAllOrNothing ==
    [][outcome' = "failed" =>
          (registry' = registry \/ registry' = EmptyRegistry)]_vars

C5_Witness ==
    /\ outcome = "failed"
    /\ registry # EmptyRegistry
    /\ \A t \in Types : DOMAIN captured.pools[t] # {}

\* C6 as stated: deserialize_registry given type lists that differ from
\* those of the capture fails; it never returns having restored.
C6_SchemaMismatchRejected ==
    outcome = "restored" => restoredWith = DeclaredLists

\* C7: serialize_registry leaves the registry as it was, and the snapshot
\* and the bytes stay those of the captured registry when the live registry
\* is mutated afterwards.
C7_CaptureLeavesStore ==
    /\ outcome = "saved" => StoreEq(registry, captured)
    /\ file # <<>> =>
        /\ file = save_snapshot(snapshot)
        /\ \E order \in Orders(captured.entities) :
              snapshot = build_snapshot(captured, DeclaredComponents,
                                        DeclaredContextVars, order)

C7_Witness ==
    /\ outcome = "live"
    /\ dirty
    /\ captured.entities # {}
    /\ ~StoreEq(registry, captured)

\* C8: in the snapshot serialize_registry builds, each type's vector holds
\* an identifier at most once and holds exactly the valid entities that
\* hold the type, and each context slot is present exactly when the
\* registry holds a context variable of the type.
C8_SnapshotWellFormed ==
    outcome = "saved" =>
        /\ \A i \in 1 .. Len(DeclaredComponents) :
            LET vec == snapshot.components[i]
            IN  /\ Cardinality(SeqIds(vec)) = Len(vec)
                /\ SeqIds(vec) =
                      {e \in captured.entities :
                          any_of(captured, DeclaredComponents[i], e)}
        /\ \A j \in 1 .. Len(DeclaredContextVars) :
            has_value(snapshot.context_vars[j])
                <=> (ctx_find(captured, DeclaredContextVars[j]) # None)

C8_Witness ==
    /\ outcome = "saved"
    /\ Len(snapshot.components[1]) = 2
    /\ snapshot.components[2] = <<>>
    /\ has_value(snapshot.context_vars[1])
    /\ ~has_value(snapshot.context_vars[2])

\* C9: a capture taken right after a restore (same type lists) equals the
\* snapshot that was restored: each vector as a set of pairs, each context
\* slot by presence and value.
C9_RecaptureEqual ==
    (outcome = "saved" /\ previous.some) =>
        /\ \A i \in 1 .. Len(DeclaredComponents) :
            /\ AsSet(snapshot.components[i])
                  = AsSet(previous.snap.components[i])
            /\ Len(snapshot.components[i])
                  = Len(previous.snap.components[i])
        /\ snapshot.context_vars = previous.snap.context_vars

C9_Witness ==
    /\ outcome = "saved"
    /\ previous.some
    /\ Len(snapshot.components[1]) = 2
    /\ snapshot.components[1] # previous.snap.components[1]
    /\ \E j \in 1 .. Len(DeclaredContextVars) :
          has_value(snapshot.context_vars[j])

\* The items save writes for the value an optional of the given depth holds.
RECURSIVE PayloadEncoding(_, _)
PayloadEncoding(v, depth) ==
    IF depth = 1 THEN <<v[1], v[2], v[3]>>
    ELSE IF v = None THEN <<0>>
         ELSE <<1>> \o PayloadEncoding(value(v), depth - 1)

\* C10: save writes a presence flag and then, only when it is set, the
\* value's encoding; loading what was written gives an optional with the
\* same presence and value, also for an optional in an optional, and also
\* (an absent flag) when the optional loaded into held a value.
C10_OptionalCodec ==
    /\ codec.pc \in {"saved", "loaded"} =>
        IF codec.saved = None THEN codec.wire = <<0>>
        ELSE /\ codec.wire[1] = 1
             /\ Tail(codec.wire)
                   = PayloadEncoding(value(codec.saved), codec.depth)
    /\ codec.pc = "loaded" => codec.loaded = codec.saved

C10_Witness ==
    /\ codec.pc = "loaded"
    /\ codec.depth = 2
    /\ codec.saved = None
    /\ codec.target # None
    /\ codec.loaded = None

====
